---- MODULE Spec2Model ----
(***************************************************************************)
(* A model of aapt2's cmd/Util.cpp: the command-line parameter parsers     *)
(* (--preferred-density, --split, -c), the split-constraint SDK adjuster,  *)
(* the split-manifest generator, the compiled-attribute extractors and     *)
(* the app-info extractor.                                                 *)
(*                                                                         *)
(* Every function of the file is synchronous and works only on its         *)
(* arguments, so a behaviour is one call: Init draws the call (function    *)
(* and arguments, including the prior contents of the objects handed in    *)
(* by pointer) and the function's action runs it to completion.            *)
(*                                                                         *)
(* A string is a sequence of lexemes.  A lexeme is either one of the       *)
(* delimiter characters ":" "," "-" " " or an indivisible run of other     *)
(* characters ("en", "hdpi", "v21", "out.apk", ...).                       *)
(***************************************************************************)
EXTENDS Integers, Sequences, FiniteSets, TLC

VARIABLES
    call,       \* the function called and its arguments
    pc,         \* "ready" before the call runs, "done" after, "again" after a re-run
    ret,        \* the value returned
    diag,       \* IDiagnostics: the messages reported, oldest first
    out_path,   \* ParseSplitParameter's *out_path
    out_split   \* ParseSplitParameter's *out_split (its configs)

vars == <<call, pc, ret, diag, out_path, out_split>>

(***************************************************************************)
(* Bounds of the model.                                                    *)
(***************************************************************************)
MaxQualLen == 3      \* lexemes in a --preferred-density argument
MaxSplitLen == 5     \* lexemes in a --split argument
MaxFilterLen == 5    \* lexemes in the -c arguments, their boundaries included
MaxSplits == 2       \* SplitConstraints handed to the SDK adjuster

(***************************************************************************)
(* util::Maybe<T>                                                          *)
(***************************************************************************)
Nothing == [some |-> FALSE]
Just(v) == [some |-> TRUE, value |-> v]

(***************************************************************************)
(* ConfigDescription: the axes the model keeps.                            *)
(***************************************************************************)
DefaultConfig ==
    [locale |-> "", orientation |-> "any", uiMode |-> "any", density |-> 0, sdkVersion |-> 0]

CONFIG_DENSITY == {"CONFIG_DENSITY"}

\* ResTable_config::diff: the axes on which two descriptors differ (a bit mask,
\* kept as the set of its bits).
ConfigDiff(a, b) ==
    (IF a.locale # b.locale THEN {"CONFIG_LOCALE"} ELSE {})
    \cup (IF a.orientation # b.orientation THEN {"CONFIG_ORIENTATION"} ELSE {})
    \cup (IF a.uiMode # b.uiMode THEN {"CONFIG_UI_MODE"} ELSE {})
    \cup (IF a.density # b.density THEN {"CONFIG_DENSITY"} ELSE {})
    \cup (IF a.sdkVersion # b.sdkVersion THEN {"CONFIG_VERSION"} ELSE {})

CopyWithoutSdkVersion(config) == [config EXCEPT !.sdkVersion = 0]

(***************************************************************************)
(* The qualifier lexemes and ConfigDescription::Parse.                     *)
(***************************************************************************)
Qualifiers ==
    {"en", "fr", "land", "car", "hdpi", "xhdpi", "v3", "v4", "v8", "v18", "v21", "v23"}

\* The position of a qualifier's axis in the order Parse expects.
QualRank(q) ==
    CASE q \in {"en", "fr"} -> 1
      [] q = "land" -> 2
      [] q = "car" -> 3
      [] q \in {"hdpi", "xhdpi"} -> 4
      [] OTHER -> 5

QualDensity(q) == IF q = "hdpi" THEN 240 ELSE 320

QualVersion(q) ==
    CASE q = "v3" -> 3
      [] q = "v4" -> 4
      [] q = "v8" -> 8
      [] q = "v18" -> 18
      [] q = "v21" -> 21
      [] OTHER -> 23

ApplyQualifier(config, q) ==
    CASE QualRank(q) = 1 -> [config EXCEPT !.locale = q]
      [] QualRank(q) = 2 -> [config EXCEPT !.orientation = q]
      [] QualRank(q) = 3 -> [config EXCEPT !.uiMode = q]
      [] QualRank(q) = 4 -> [config EXCEPT !.density = QualDensity(q)]
      [] OTHER -> [config EXCEPT !.sdkVersion = QualVersion(q)]

\* The lowest platform version on which a descriptor's axes exist.
CompatVersion(config) ==
    IF config.uiMode # "any" THEN 8
    ELSE IF config.density # 0 THEN 4
    ELSE 0

ApplyVersionForCompatibility(config) ==
    IF CompatVersion(config) > config.sdkVersion
    THEN [config EXCEPT !.sdkVersion = CompatVersion(config)]
    ELSE config

\* util::Split: the parts of str between the occurrences of sep, empty ones kept.
RECURSIVE Split(_, _)
Split(str, sep) ==
    IF \E i \in 1..Len(str) : str[i] = sep
    THEN LET i == CHOOSE k \in 1..Len(str) :
                      str[k] = sep /\ \A j \in 1..(k - 1) : str[j] # sep
         IN  <<SubSeq(str, 1, i - 1)>> \o Split(SubSeq(str, i + 1, Len(str)), sep)
    ELSE <<str>>

\* util::Tokenize: the non-empty parts of str between the occurrences of sep.
Tokenize(str, sep) == SelectSeq(Split(str, sep), LAMBDA part : part # <<>>)

\* ConfigDescription::Parse on the parts of a string already split on "-":
\* every part is one qualifier, and the axes come in Parse's order.
RECURSIVE ParseParts(_, _, _)
ParseParts(parts, rank, config) ==
    IF parts = <<>> THEN Just(ApplyVersionForCompatibility(config))
    ELSE LET part == Head(parts)
         IN  IF Len(part) = 1 /\ part[1] \in Qualifiers /\ QualRank(part[1]) > rank
             THEN ParseParts(Tail(parts), QualRank(part[1]), ApplyQualifier(config, part[1]))
             ELSE Nothing

\* ConfigDescription::Parse: Nothing when str is no configuration.
ConfigParse(str) ==
    IF str = <<>> THEN Just(DefaultConfig) ELSE ParseParts(Split(str, "-"), 0, DefaultConfig)

\* LocaleValue::InitFromFilterString followed by LocaleValue::WriteTo: a run of
\* two or three letters is a language.
LocaleLexemes == {"en", "fr", "car"}

LocaleParse(str) ==
    IF Len(str) = 1 /\ str[1] \in LocaleLexemes
    THEN Just([DefaultConfig EXCEPT !.locale = str[1]])
    ELSE Nothing

(***************************************************************************)
(* IDiagnostics messages.                                                  *)
(***************************************************************************)
\* A message: its level, its text (the fixed wording first, then the values
\* streamed into it), and the source file and line it is anchored at, if any.
Msg(level, text) == [level |-> level, text |-> text, source |-> <<>>, line |-> Nothing]
MsgAt(level, text, source, line) ==
    [level |-> level, text |-> text, source |-> source, line |-> line]

Errors(log) == SelectSeq(log, LAMBDA m : m.level = "Error")

Map(f(_), s) == [i \in 1..Len(s) |-> f(s[i])]

\* All sequences over S of length at most n.
SeqsUpTo(S, n) == UNION {[1..k -> S] : k \in 0..n}

(***************************************************************************)
(* ParseTargetDensityParameter                                             *)
(***************************************************************************)
DensityLexemes == {"-", "en", "land", "hdpi", "xhdpi", "v3", "v21", "zz"}

DensityCalls ==
    {[op |-> "ParseTargetDensityParameter", arg |-> s] : s \in SeqsUpTo(DensityLexemes, MaxQualLen)}

\* A variant that keeps the version Parse added.
PreferredDensityConfigKeepSdk(parsed) == parsed

\* The descriptor the density check compares with the default one.
PreferredDensityConfig(parsed) == [parsed EXCEPT !.sdkVersion = 0]

ParseTargetDensityParameter ==
    /\ pc = "ready"
    /\ call.op = "ParseTargetDensityParameter"
    /\ LET parsed == ConfigParse(call.arg)
       IN  IF ~parsed.some
           THEN /\ diag' = Append(diag, Msg("Error", <<"invalid density", call.arg>>))
                /\ ret' = Nothing
           ELSE LET preferred_density_config == PreferredDensityConfig(parsed.value)
                IN  IF ConfigDiff(preferred_density_config, DefaultConfig) # CONFIG_DENSITY
                    THEN /\ diag' = Append(diag,
                                           Msg("Error", <<"invalid preferred density", call.arg>>))
                         /\ ret' = Nothing
                    ELSE /\ diag' = diag
                         /\ ret' = Just(preferred_density_config.density)
    /\ pc' = "done"
    /\ UNCHANGED <<call, out_path, out_split>>

(***************************************************************************)
(* ParseSplitParameter                                                     *)
(***************************************************************************)
SplitLexemes == {"out.apk", ":", ",", "en", "fr", "zz"}

\* What *out_path and *out_split hold when ParseSplitParameter is entered.
SplitPriors ==
    {[path |-> <<>>, configs |-> {}],
     [path |-> <<"old.apk">>,
      configs |-> {[DefaultConfig EXCEPT !.locale = "en"],
                   [DefaultConfig EXCEPT !.orientation = "land"]}]}

SplitCalls ==
    {[op |-> "ParseSplitParameter", arg |-> s, prior |-> p] :
        s \in SeqsUpTo(SplitLexemes, MaxSplitLen), p \in SplitPriors}

sSeparator == ":"

\* A variant that inserts a token's config only once the tokens after it parsed.
RECURSIVE SplitConfigLoopLate(_, _, _)
SplitConfigLoopLate(tokens, configs, arg) ==
    IF tokens = <<>> THEN [ok |-> TRUE, configs |-> configs, log |-> <<>>]
    ELSE LET config == ConfigParse(Head(tokens))
         IN  IF ~config.some
             THEN [ok |-> FALSE, configs |-> configs,
                   log |-> <<Msg("Error", <<"invalid config", Head(tokens), arg>>)>>]
             ELSE LET rest == SplitConfigLoopLate(Tail(tokens), configs, arg)
                  IN  IF rest.ok THEN [rest EXCEPT !.configs = @ \cup {config.value}]
                      ELSE rest

\* The loop over the tokens of parts[1]: whether it ran to the end, the
\* configs of *out_split and the messages reported when it stopped.
RECURSIVE SplitConfigLoop(_, _, _)
SplitConfigLoop(tokens, configs, arg) ==
    IF tokens = <<>> THEN [ok |-> TRUE, configs |-> configs, log |-> <<>>]
    ELSE LET config == ConfigParse(Head(tokens))
         IN  IF ~config.some
             THEN [ok |-> FALSE, configs |-> configs,
                   log |-> <<Msg("Error", <<"invalid config", Head(tokens), arg>>)>>]
             ELSE SplitConfigLoop(Tail(tokens), configs \cup {config.value}, arg)

\* A variant that takes the first two of any number of parts.
SplitPartsAtLeastTwo(parts) == Len(parts) >= 2

\* How many parts of the argument ParseSplitParameter accepts.
SplitPartsOk(parts) == Len(parts) = 2

ParseSplitParameter ==
    /\ pc = "ready"
    /\ call.op = "ParseSplitParameter"
    /\ LET parts == Split(call.arg, sSeparator)
       IN  IF ~SplitPartsOk(parts)
           THEN /\ diag' = diag \o <<Msg("Error", <<"invalid split parameter", call.arg>>),
                                     Msg("Note", <<"should be --split path/to/output.apk",
                                                   sSeparator, "<config>[,<config>...].">>)>>
                /\ ret' = FALSE
                /\ UNCHANGED <<out_path, out_split>>
           ELSE LET loop == SplitConfigLoop(Tokenize(parts[2], ","), out_split, call.arg)
                IN  /\ out_path' = parts[1]
                    /\ out_split' = loop.configs
                    /\ diag' = diag \o loop.log
                    /\ ret' = loop.ok
    /\ pc' = "done"
    /\ UNCHANGED call

(***************************************************************************)
(* ParseConfigFilterParameters                                             *)
(***************************************************************************)
FilterLexemes == {" ", ",", "en", "car", "hdpi", "land", "zz"}

\* The -c arguments of a command line: the parts between its blanks.
FilterCalls ==
    {[op |-> "ParseConfigFilterParameters", args |-> Split(s, " ")] :
        s \in SeqsUpTo(FilterLexemes, MaxFilterLen)}

\* A variant that tries ConfigDescription::Parse first.
FilterTokenConfigGenericFirst(config_str) ==
    IF ConfigParse(config_str).some THEN ConfigParse(config_str) ELSE LocaleParse(config_str)

\* The configuration a -c token stands for: LocaleValue first,
\* ConfigDescription::Parse when the token is no locale.
FilterTokenConfig(config_str) ==
    IF LocaleParse(config_str).some THEN LocaleParse(config_str) ELSE ConfigParse(config_str)

\* The inner loop, over the tokens of one argument.  The filter is kept as the
\* configurations handed to AxisConfigFilter::AddConfig, in the order of the calls.
RECURSIVE FilterTokenLoop(_, _, _)
FilterTokenLoop(tokens, filter, log) ==
    IF tokens = <<>> THEN [ok |-> TRUE, filter |-> filter, log |-> log]
    ELSE LET config == FilterTokenConfig(Head(tokens))
         IN  IF ~config.some
             THEN [ok |-> FALSE, filter |-> filter,
                   log |-> Append(log, Msg("Error", <<"invalid config", Head(tokens)>>))]
             ELSE IF config.value.density # 0
             THEN FilterTokenLoop(Tail(tokens), filter,
                                  Append(log, Msg("Warn", <<"ignoring density", config.value>>)))
             ELSE FilterTokenLoop(Tail(tokens), Append(filter, config.value), log)

\* The outer loop, over the arguments.
RECURSIVE FilterArgLoop(_, _, _)
FilterArgLoop(args, filter, log) ==
    IF args = <<>> THEN [ok |-> TRUE, filter |-> filter, log |-> log]
    ELSE LET inner == FilterTokenLoop(Tokenize(Head(args), ","), filter, log)
         IN  IF ~inner.ok THEN inner
             ELSE FilterArgLoop(Tail(args), inner.filter, inner.log)

ParseConfigFilterParameters ==
    /\ pc = "ready"
    /\ call.op = "ParseConfigFilterParameters"
    /\ LET loop == FilterArgLoop(call.args, <<>>, <<>>)
       IN  /\ diag' = diag \o loop.log
           /\ ret' = IF loop.ok THEN Just(loop.filter) ELSE Nothing
    /\ pc' = "done"
    /\ UNCHANGED <<call, out_path, out_split>>

(***************************************************************************)
(* AdjustSplitConstraintsForMinSdk                                         *)
(***************************************************************************)
\* ConfigDescription's operator<: locale, then screenType (density above
\* orientation), then version, then uiMode.
LocaleOrd(locale) ==
    CASE locale = "" -> 0
      [] locale = "car" -> 1
      [] locale = "en" -> 2
      [] OTHER -> 3

ConfigKey(config) ==
    <<LocaleOrd(config.locale), config.density,
      IF config.orientation = "any" THEN 0 ELSE 2,
      config.sdkVersion,
      IF config.uiMode = "any" THEN 0 ELSE 3>>

RECURSIVE KeyLess(_, _)
KeyLess(a, b) ==
    /\ a # <<>>
    /\ \/ Head(a) < Head(b)
       \/ Head(a) = Head(b) /\ KeyLess(Tail(a), Tail(b))

ConfigLess(a, b) == KeyLess(ConfigKey(a), ConfigKey(b))

\* The elements of a std::set<ConfigDescription> in the order it iterates them.
RECURSIVE InOrder(_)
InOrder(configs) ==
    IF configs = {} THEN <<>>
    ELSE LET first == CHOOSE c \in configs : \A d \in configs \ {c} : ConfigLess(c, d)
         IN  <<first>> \o InOrder(configs \ {first})

AdjustConfigs ==
    {[DefaultConfig EXCEPT !.locale = "en"],
     [DefaultConfig EXCEPT !.locale = "en", !.sdkVersion = 18],
     [DefaultConfig EXCEPT !.locale = "en", !.sdkVersion = 23],
     [DefaultConfig EXCEPT !.density = 240, !.sdkVersion = 21]}

MinSdks == {-1, 0, 17, 18, 21, 23}

AdjustCalls ==
    {[op |-> "AdjustSplitConstraintsForMinSdk", min_sdk |-> m, split_constraints |-> sc,
      original |-> sc] :
        m \in MinSdks, sc \in SeqsUpTo(SUBSET AdjustConfigs, MaxSplits)}

\* A variant that strips only the versions below min_sdk.
AdjustedConfigBelow(min_sdk, config) ==
    IF config.sdkVersion < min_sdk THEN CopyWithoutSdkVersion(config) ELSE config

\* What the inner loop inserts for one config.
AdjustedConfig(min_sdk, config) ==
    IF config.sdkVersion <= min_sdk THEN CopyWithoutSdkVersion(config) ELSE config

\* The inner loop, over the configs of one SplitConstraints.
RECURSIVE AdjustConfigLoop(_, _, _)
AdjustConfigLoop(min_sdk, configs, constraint) ==
    IF configs = <<>> THEN constraint
    ELSE AdjustConfigLoop(min_sdk, Tail(configs),
                          constraint \cup {AdjustedConfig(min_sdk, Head(configs))})

\* The outer loop, over the SplitConstraints.
RECURSIVE AdjustLoop(_, _, _)
AdjustLoop(min_sdk, split_constraints, adjusted_constraints) ==
    IF split_constraints = <<>> THEN adjusted_constraints
    ELSE AdjustLoop(min_sdk, Tail(split_constraints),
                    Append(adjusted_constraints,
                           AdjustConfigLoop(min_sdk, InOrder(Head(split_constraints)), {})))

\* A variant that sizes the result (resize) where the code only reserves room.
AdjustSplitConstraintsResized(min_sdk, split_constraints) ==
    AdjustLoop(min_sdk, split_constraints, [i \in 1..Len(split_constraints) |-> {}])

AdjustSplitConstraintsForMinSdk(min_sdk, split_constraints) ==
    AdjustLoop(min_sdk, split_constraints, <<>>)

AdjustCall ==
    /\ pc = "ready"
    /\ call.op = "AdjustSplitConstraintsForMinSdk"
    /\ ret' = AdjustSplitConstraintsForMinSdk(call.min_sdk, call.split_constraints)
    /\ pc' = "done"
    /\ UNCHANGED <<call, diag, out_path, out_split>>

\* The caller adjusts the result once more with the same minimum.
AdjustAgain ==
    /\ pc = "done"
    /\ call.op = "AdjustSplitConstraintsForMinSdk"
    /\ call' = [call EXCEPT !.split_constraints = ret]
    /\ ret' = AdjustSplitConstraintsForMinSdk(call.min_sdk, ret)
    /\ pc' = "again"
    /\ UNCHANGED <<diag, out_path, out_split>>

(***************************************************************************)
(* GenerateSplitManifest                                                   *)
(***************************************************************************)
kSchemaAndroid == "http://schemas.android.com/apk/res/android"

kVersionCode == "0x0101021b"
kRevisionCode == "0x010104d5"
kHasCode == "0x0101000c"

TYPE_INT_DEC == 16
TYPE_INT_BOOLEAN == 18
TYPE_FIRST_INT == 16
TYPE_LAST_INT == 31

\* The Value classes an attribute's compiled_value can point to.
String(value) == [kind |-> "String", value |-> value]
BinaryPrimitive(dataType, data) == [kind |-> "BinaryPrimitive", dataType |-> dataType, data |-> data]
Reference == [kind |-> "Reference"]

\* xml::Attribute
Attribute(namespace_uri, name, value) ==
    [namespace_uri |-> namespace_uri, name |-> name, value |-> value,
     compiled_attribute |-> Nothing, compiled_value |-> Nothing]
CompiledAttribute(namespace_uri, name, value, id, compiled_value) ==
    [namespace_uri |-> namespace_uri, name |-> name, value |-> value,
     compiled_attribute |-> id, compiled_value |-> Just(compiled_value)]

CreateAttributeWithId(id) == Just(id)

\* std::to_string of an unsigned number: its decimal digits.
Digit(d) ==
    CASE d = 0 -> "0" [] d = 1 -> "1" [] d = 2 -> "2" [] d = 3 -> "3" [] d = 4 -> "4"
      [] d = 5 -> "5" [] d = 6 -> "6" [] d = 7 -> "7" [] d = 8 -> "8" [] OTHER -> "9"

RECURSIVE to_string(_)
to_string(n) == IF n < 10 THEN <<Digit(n)>> ELSE Append(to_string(n \div 10), Digit(n % 10))

\* ConfigDescription::toString: the qualifiers of the axes that are set, in
\* Parse's order, joined by "-".
ConfigQualifiers(config) ==
    (IF config.locale # "" THEN <<config.locale>> ELSE <<>>)
    \o (IF config.orientation # "any" THEN <<config.orientation>> ELSE <<>>)
    \o (IF config.uiMode # "any" THEN <<config.uiMode>> ELSE <<>>)
    \o (IF config.density # 0
        THEN <<CHOOSE q \in Qualifiers : QualRank(q) = 4 /\ QualDensity(q) = config.density>>
        ELSE <<>>)
    \o (IF config.sdkVersion # 0
        THEN <<CHOOSE q \in Qualifiers : QualRank(q) = 5 /\ QualVersion(q) = config.sdkVersion>>
        ELSE <<>>)

RECURSIVE JoinWith(_, _)
JoinWith(pieces, sep) ==
    IF pieces = <<>> THEN <<>>
    ELSE IF Len(pieces) = 1 THEN Head(pieces)
    ELSE Head(pieces) \o <<sep>> \o JoinWith(Tail(pieces), sep)

ConfigToString(config) == JoinWith(Map(LAMBDA q : <<q>>, ConfigQualifiers(config)), "-")

\* util::Joiner over a std::set<ConfigDescription>, streamed.
Joiner(configs, sep) == JoinWith(Map(ConfigToString, InOrder(configs)), sep)

ManifestConfigs ==
    {[DefaultConfig EXCEPT !.locale = "en"],
     [DefaultConfig EXCEPT !.locale = "fr", !.sdkVersion = 21],
     [DefaultConfig EXCEPT !.density = 240, !.sdkVersion = 4],
     [DefaultConfig EXCEPT !.orientation = "land"]}

AppInfos ==
    [package : {<<"com.example">>},
     version_code : {Nothing, Just(0), Just(7), Just(12)},
     revision_code : {Nothing, Just(2)},
     split_name : {Nothing, Just(<<"feature">>), Just(<<>>)},
     min_sdk_version : {0}]

ManifestCalls ==
    {[op |-> "GenerateSplitManifest", app_info |-> a, constraints |-> c] :
        a \in AppInfos, c \in SUBSET ManifestConfigs}

\* A variant that leaves the split's own name out of the attribute.
SplitAttributeValueNoName(app_info, constraints) ==
    <<"config.">> \o Joiner(constraints, "_")

\* What is streamed into split_name.
SplitAttributeValue(app_info, constraints) ==
    (IF app_info.split_name.some THEN app_info.split_name.value \o <<".">> ELSE <<>>)
    \o <<"config.">> \o Joiner(constraints, "_")

\* The document GenerateSplitManifest builds.
SplitManifest(app_info, constraints) ==
    LET application_el ==
            [kind |-> "Element", namespace_uri |-> "", name |-> "application", line_number |-> 0,
             attributes |->
                <<CompiledAttribute(kSchemaAndroid, "hasCode", <<"false">>,
                                    CreateAttributeWithId(kHasCode),
                                    BinaryPrimitive(TYPE_INT_BOOLEAN, 0))>>,
             children |-> <<>>]
        manifest_el ==
            [kind |-> "Element", namespace_uri |-> "", name |-> "manifest", line_number |-> 0,
             attributes |->
                <<Attribute("", "package", app_info.package)>>
                \o (IF app_info.version_code.some
                    THEN <<CompiledAttribute(kSchemaAndroid, "versionCode",
                                             to_string(app_info.version_code.value),
                                             CreateAttributeWithId(kVersionCode),
                                             BinaryPrimitive(TYPE_INT_DEC,
                                                             app_info.version_code.value))>>
                    ELSE <<>>)
                \o (IF app_info.revision_code.some
                    THEN <<CompiledAttribute(kSchemaAndroid, "revisionCode",
                                             to_string(app_info.revision_code.value),
                                             CreateAttributeWithId(kRevisionCode),
                                             BinaryPrimitive(TYPE_INT_DEC,
                                                             app_info.revision_code.value))>>
                    ELSE <<>>)
                \o <<Attribute("", "split", SplitAttributeValue(app_info, constraints))>>
                \o (IF app_info.split_name.some
                    THEN <<Attribute("", "configForSplit", app_info.split_name.value)>>
                    ELSE <<>>),
             children |-> <<application_el>>]
        namespace_android ==
            [kind |-> "Namespace", namespace_uri |-> kSchemaAndroid,
             namespace_prefix |-> "android", children |-> <<manifest_el>>]
    IN  [root |-> Just(namespace_android)]

GenerateSplitManifest ==
    /\ pc = "ready"
    /\ call.op = "GenerateSplitManifest"
    /\ ret' = SplitManifest(call.app_info, call.constraints)
    /\ pc' = "done"
    /\ UNCHANGED <<call, diag, out_path, out_split>>

(***************************************************************************)
(* ExtractCompiledString, ExtractCompiledInt, ExtractSdkVersion            *)
(***************************************************************************)
\* ResourceUtils::ParseInt: the number a text denotes, if it denotes one.
ParseInt(text) ==
    IF Len(text) # 1 THEN Nothing
    ELSE CASE text[1] = "7" -> Just(7)
           [] text[1] = "21" -> Just(21)
           [] OTHER -> Nothing

\* ResourceUtils::ParseSdkVersion: a number, or the code name of a release.
ParseSdkVersion(text) ==
    IF ParseInt(text).some THEN ParseInt(text)
    ELSE IF text = <<"O">> THEN Just(26)
    ELSE Nothing

\* What an extractor hands back: its return value and *out_error.
Extracted(value, out_error) == [result |-> Just(value), out_error |-> out_error]
Failed(out_error) == [result |-> Nothing, out_error |-> out_error]

IsIntType(dataType) == dataType >= TYPE_FIRST_INT /\ dataType <= TYPE_LAST_INT

\* A variant that falls back to the text when the compiled string is empty.
ExtractCompiledStringOrText(attr, out_error) ==
    IF attr.compiled_value.some
          /\ ~(attr.compiled_value.value.kind = "String"
                /\ attr.compiled_value.value.value = <<>>)
    THEN LET compiled == attr.compiled_value.value
         IN  IF compiled.kind = "String"
             THEN Extracted(compiled.value, out_error)
             ELSE Failed(<<"compiled value is not a string">>)
    ELSE IF attr.value # <<>> THEN Extracted(attr.value, out_error)
    ELSE Failed(<<"value is an empty string">>)

ExtractCompiledString(attr, out_error) ==
    IF attr.compiled_value.some
    THEN LET compiled == attr.compiled_value.value
         IN  IF compiled.kind = "String"
             THEN IF compiled.value # <<>>
                  THEN Extracted(compiled.value, out_error)
                  ELSE Failed(<<"compiled value is an empty string">>)
             ELSE Failed(<<"compiled value is not a string">>)
    ELSE IF attr.value # <<>> THEN Extracted(attr.value, out_error)
    ELSE Failed(<<"value is an empty string">>)

ExtractCompiledInt(attr, out_error) ==
    IF attr.compiled_value.some
    THEN LET compiled == attr.compiled_value.value
         IN  IF compiled.kind = "BinaryPrimitive" /\ IsIntType(compiled.dataType)
             THEN Extracted(compiled.data, out_error)
             ELSE Failed(<<"compiled value is not an integer">>)
    ELSE LET integer == ParseInt(attr.value)
         IN  IF integer.some THEN Extracted(integer.value, out_error)
             ELSE Failed(<<"'">> \o attr.value \o <<"' is not a valid integer">>)

ExtractSdkVersion(attr, out_error) ==
    IF attr.compiled_value.some
    THEN LET compiled == attr.compiled_value.value
         IN  IF compiled.kind = "BinaryPrimitive"
             THEN IF IsIntType(compiled.dataType)
                  THEN Extracted(compiled.data, out_error)
                  ELSE Failed(<<"compiled value is not an integer or string">>)
             ELSE IF compiled.kind = "String"
             THEN LET sdk_version == ParseSdkVersion(compiled.value)
                  IN  IF sdk_version.some THEN Extracted(sdk_version.value, out_error)
                      ELSE Failed(<<"compiled string value is not a valid SDK version">>)
             ELSE Failed(<<"compiled value is not an integer or string">>)
    ELSE LET sdk_version == ParseSdkVersion(attr.value)
         IN  IF sdk_version.some THEN Extracted(sdk_version.value, out_error)
             ELSE Failed(<<"'">> \o attr.value \o <<"' is not a valid SDK version">>)

AttributeTexts == {<<>>, <<"com.example">>, <<"7">>, <<"O">>, <<"abc">>}

CompiledValues ==
    {String(<<>>), String(<<"com.example">>), String(<<"7">>), String(<<"O">>),
     String(<<"abc">>), BinaryPrimitive(TYPE_INT_DEC, 7), BinaryPrimitive(TYPE_INT_BOOLEAN, 1),
     BinaryPrimitive(4, 7), Reference}

ExtractAttributes ==
    {Attribute("", "attr", text) : text \in AttributeTexts}
    \cup {CompiledAttribute("", "attr", text, Nothing, compiled) :
             text \in AttributeTexts, compiled \in CompiledValues}

Extractors == {"ExtractCompiledString", "ExtractCompiledInt", "ExtractSdkVersion"}

ExtractCalls ==
    {[op |-> e, attr |-> a, out_error |-> m] :
        e \in Extractors, a \in ExtractAttributes, m \in {<<>>, <<"an earlier error">>}}

CallExtractCompiledString ==
    /\ pc = "ready"
    /\ call.op = "ExtractCompiledString"
    /\ ret' = ExtractCompiledString(call.attr, call.out_error)
    /\ pc' = "done"
    /\ UNCHANGED <<call, diag, out_path, out_split>>

CallExtractCompiledInt ==
    /\ pc = "ready"
    /\ call.op = "ExtractCompiledInt"
    /\ ret' = ExtractCompiledInt(call.attr, call.out_error)
    /\ pc' = "done"
    /\ UNCHANGED <<call, diag, out_path, out_split>>

CallExtractSdkVersion ==
    /\ pc = "ready"
    /\ call.op = "ExtractSdkVersion"
    /\ ret' = ExtractSdkVersion(call.attr, call.out_error)
    /\ pc' = "done"
    /\ UNCHANGED <<call, diag, out_path, out_split>>

(***************************************************************************)
(* ExtractAppInfoFromBinaryManifest                                        *)
(***************************************************************************)
\* xml::FindRootElement: the first element at or below node, through the
\* namespace nodes that wrap it.
RECURSIVE FindRootElement(_)
FindRootElement(node) ==
    IF ~node.some THEN Nothing
    ELSE IF node.value.kind = "Element" THEN node
    ELSE IF node.value.children = <<>> THEN Nothing
    ELSE FindRootElement(Just(Head(node.value.children)))

\* xml::Element::FindAttribute: the first attribute with this namespace and name.
FindAttribute(el, namespace_uri, name) ==
    LET at == {i \in 1..Len(el.attributes) :
                  el.attributes[i].namespace_uri = namespace_uri /\ el.attributes[i].name = name}
    IN  IF at = {} THEN Nothing
        ELSE Just(el.attributes[CHOOSE i \in at : \A j \in at : i <= j])

\* xml::Element::FindChild: the first child element with this namespace and name.
FindChild(el, namespace_uri, name) ==
    LET at == {i \in 1..Len(el.children) :
                  el.children[i].namespace_uri = namespace_uri /\ el.children[i].name = name}
    IN  IF at = {} THEN Nothing
        ELSE Just(el.children[CHOOSE i \in at : \A j \in at : i <= j])

\* A variant that looks at the root's name only.
IsManifestRootByName(manifest_el) == manifest_el.name = "manifest"

\* The negation of the root-tag test.
IsManifestRoot(manifest_el) ==
    ~(manifest_el.namespace_uri # "" \/ manifest_el.name # "manifest")

ManifestSource == <<"AndroidManifest.xml">>

\* The failure return: nothing, and the message reported, if any.
Fail(log) == [result |-> Nothing, log |-> log]

\* The last step: uses-sdk and its android:minSdkVersion.
ExtractMinSdk(source, manifest_el, app_info, error_msg) ==
    LET uses_sdk_el == FindChild(manifest_el, "", "uses-sdk")
        min_sdk == IF uses_sdk_el.some
                   THEN FindAttribute(uses_sdk_el.value, kSchemaAndroid, "minSdkVersion")
                   ELSE Nothing
    IN  IF ~min_sdk.some THEN [result |-> Just(app_info), log |-> <<>>]
        ELSE LET maybe_sdk == ExtractSdkVersion(min_sdk.value, error_msg)
             IN  IF ~maybe_sdk.result.some
                 THEN Fail(<<MsgAt("Error",
                                   <<"invalid android:minSdkVersion: ", maybe_sdk.out_error>>,
                                   source, Just(uses_sdk_el.value.line_number))>>)
                 ELSE [result |-> Just([app_info EXCEPT
                                           !.min_sdk_version = maybe_sdk.result.value]),
                       log |-> <<>>]

\* The step before: split.
ExtractSplitName(source, manifest_el, app_info, error_msg) ==
    LET split_name_attr == FindAttribute(manifest_el, "", "split")
    IN  IF ~split_name_attr.some THEN ExtractMinSdk(source, manifest_el, app_info, error_msg)
        ELSE LET maybe_split_name == ExtractCompiledString(split_name_attr.value, error_msg)
             IN  IF ~maybe_split_name.result.some
                 THEN Fail(<<MsgAt("Error",
                                   <<"invalid split name: ", maybe_split_name.out_error>>,
                                   source, Just(manifest_el.line_number))>>)
                 ELSE ExtractMinSdk(source, manifest_el,
                                    [app_info EXCEPT
                                        !.split_name = Just(maybe_split_name.result.value)],
                                    maybe_split_name.out_error)

\* The step before: android:revisionCode.
ExtractRevisionCode(source, manifest_el, app_info, error_msg) ==
    LET revision_code_attr == FindAttribute(manifest_el, kSchemaAndroid, "revisionCode")
    IN  IF ~revision_code_attr.some
        THEN ExtractSplitName(source, manifest_el, app_info, error_msg)
        ELSE LET maybe_code == ExtractCompiledInt(revision_code_attr.value, error_msg)
             IN  IF ~maybe_code.result.some
                 THEN Fail(<<MsgAt("Error",
                                   <<"invalid android:revisionCode: ", maybe_code.out_error>>,
                                   source, Just(manifest_el.line_number))>>)
                 ELSE ExtractSplitName(source, manifest_el,
                                       [app_info EXCEPT
                                           !.revision_code = Just(maybe_code.result.value)],
                                       maybe_code.out_error)

\* The step before: android:versionCode.
ExtractVersionCode(source, manifest_el, app_info, error_msg) ==
    LET version_code_attr == FindAttribute(manifest_el, kSchemaAndroid, "versionCode")
    IN  IF ~version_code_attr.some
        THEN ExtractRevisionCode(source, manifest_el, app_info, error_msg)
        ELSE LET maybe_code == ExtractCompiledInt(version_code_attr.value, error_msg)
             IN  IF ~maybe_code.result.some
                 THEN Fail(<<MsgAt("Error",
                                   <<"invalid android:versionCode: ", maybe_code.out_error>>,
                                   source, Just(manifest_el.line_number))>>)
                 ELSE ExtractRevisionCode(source, manifest_el,
                                          [app_info EXCEPT
                                              !.version_code = Just(maybe_code.result.value)],
                                          maybe_code.out_error)

\* A default-constructed AppInfo.
EmptyAppInfo ==
    [package |-> <<>>, version_code |-> Nothing, revision_code |-> Nothing,
     split_name |-> Nothing, min_sdk_version |-> 0]

\* The whole function: what it returns and what it reports.
ExtractAppInfo(xml_res) ==
    LET manifest_el == FindRootElement(xml_res.root)
        source == xml_res.file.source
    IN  IF ~manifest_el.some THEN Fail(<<>>)
        ELSE IF ~IsManifestRoot(manifest_el.value)
        THEN Fail(<<MsgAt("Error", <<"root tag must be <manifest>">>, source, Nothing)>>)
        ELSE LET package_attr == FindAttribute(manifest_el.value, "", "package")
             IN  IF ~package_attr.some
                 THEN Fail(<<MsgAt("Error", <<"<manifest> must have a 'package' attribute">>,
                                   source, Nothing)>>)
                 ELSE LET maybe_package == ExtractCompiledString(package_attr.value, <<>>)
                      IN  IF ~maybe_package.result.some
                          THEN Fail(<<MsgAt("Error",
                                            <<"invalid package name: ",
                                              maybe_package.out_error>>,
                                            source, Just(manifest_el.value.line_number))>>)
                          ELSE ExtractVersionCode(
                                   source, manifest_el.value,
                                   [EmptyAppInfo EXCEPT !.package = maybe_package.result.value],
                                   maybe_package.out_error)

\* The attributes and the uses-sdk child a manifest element is drawn with.
PackageChoices ==
    {<<>>,
     <<Attribute("", "package", <<"com.example">>)>>,
     <<Attribute("", "package", <<>>)>>,
     <<Attribute(kSchemaAndroid, "package", <<"com.example">>)>>}

VersionCodeChoices ==
    {<<>>,
     <<CompiledAttribute(kSchemaAndroid, "versionCode", <<"7">>, Just(kVersionCode),
                         BinaryPrimitive(TYPE_INT_DEC, 7))>>,
     <<Attribute(kSchemaAndroid, "versionCode", <<"abc">>)>>}

RevisionCodeChoices ==
    {<<>>,
     <<Attribute(kSchemaAndroid, "revisionCode", <<"21">>)>>,
     <<CompiledAttribute(kSchemaAndroid, "revisionCode", <<"21">>, Just(kRevisionCode),
                         String(<<"21">>))>>}

SplitChoices ==
    {<<>>,
     <<Attribute("", "split", <<"feature">>)>>,
     <<CompiledAttribute("", "split", <<"feature">>, Nothing, String(<<>>))>>}

UsesSdk(attributes) ==
    [kind |-> "Element", namespace_uri |-> "", name |-> "uses-sdk", line_number |-> 5,
     attributes |-> attributes, children |-> <<>>]

Application ==
    [kind |-> "Element", namespace_uri |-> "", name |-> "application", line_number |-> 7,
     attributes |-> <<>>, children |-> <<>>]

ChildrenChoices ==
    {<<Application>>,
     <<UsesSdk(<<>>), Application>>,
     <<Application, UsesSdk(<<Attribute(kSchemaAndroid, "minSdkVersion", <<"O">>)>>)>>,
     <<UsesSdk(<<Attribute(kSchemaAndroid, "minSdkVersion", <<"abc">>)>>)>>}

RootElements ==
    {[kind |-> "Element", namespace_uri |-> ns, name |-> name, line_number |-> 2,
      attributes |-> p \o v \o r \o s, children |-> c] :
        ns \in {"", kSchemaAndroid}, name \in {"manifest", "application"},
        p \in PackageChoices, v \in VersionCodeChoices, r \in RevisionCodeChoices,
        s \in SplitChoices, c \in ChildrenChoices}

Namespace(children) ==
    [kind |-> "Namespace", namespace_uri |-> kSchemaAndroid, namespace_prefix |-> "android",
     children |-> children]

XmlResources ==
    {[file |-> [source |-> ManifestSource], root |-> Nothing],
     [file |-> [source |-> ManifestSource], root |-> Just(Namespace(<<>>))]}
    \cup {[file |-> [source |-> ManifestSource], root |-> Just(el)] : el \in RootElements}
    \cup {[file |-> [source |-> ManifestSource], root |-> Just(Namespace(<<el>>))] :
             el \in RootElements}

AppInfoCalls == {[op |-> "ExtractAppInfoFromBinaryManifest", xml_res |-> x] : x \in XmlResources}

ExtractAppInfoFromBinaryManifest ==
    /\ pc = "ready"
    /\ call.op = "ExtractAppInfoFromBinaryManifest"
    /\ LET extracted == ExtractAppInfo(call.xml_res)
       IN  /\ ret' = extracted.result
           /\ diag' = diag \o extracted.log
    /\ pc' = "done"
    /\ UNCHANGED <<call, out_path, out_split>>

(***************************************************************************)
(* Specifications                                                          *)
(***************************************************************************)
InitCommon ==
    /\ pc = "ready"
    /\ ret = Nothing
    /\ diag = <<>>
    /\ out_path = <<>>
    /\ out_split = {}

InitDensity == call \in DensityCalls /\ InitCommon

InitSplit ==
    /\ call \in SplitCalls
    /\ pc = "ready"
    /\ ret = Nothing
    /\ diag = <<>>
    /\ out_path = call.prior.path
    /\ out_split = call.prior.configs

InitFilter == call \in FilterCalls /\ InitCommon

SpecDensity == InitDensity /\ [][ParseTargetDensityParameter]_vars

SpecSplit == InitSplit /\ [][ParseSplitParameter]_vars

SpecFilter == InitFilter /\ [][ParseConfigFilterParameters]_vars

InitAdjust == call \in AdjustCalls /\ InitCommon

SpecAdjust == InitAdjust /\ [][AdjustCall \/ AdjustAgain]_vars

InitManifest == call \in ManifestCalls /\ InitCommon

SpecManifest == InitManifest /\ [][GenerateSplitManifest]_vars

InitExtract == call \in ExtractCalls /\ InitCommon

SpecExtract ==
    InitExtract
    /\ [][CallExtractCompiledString \/ CallExtractCompiledInt \/ CallExtractSdkVersion]_vars

InitAppInfo == call \in AppInfoCalls /\ InitCommon

SpecAppInfo == InitAppInfo /\ [][ExtractAppInfoFromBinaryManifest]_vars

Init ==
    \/ InitDensity
    \/ InitSplit
    \/ InitFilter
    \/ InitAdjust
    \/ InitManifest
    \/ InitExtract
    \/ InitAppInfo

Next ==
    \/ ParseTargetDensityParameter
    \/ ParseSplitParameter
    \/ ParseConfigFilterParameters
    \/ AdjustCall
    \/ AdjustAgain
    \/ GenerateSplitManifest
    \/ CallExtractCompiledString
    \/ CallExtractCompiledInt
    \/ CallExtractSdkVersion
    \/ ExtractAppInfoFromBinaryManifest

Spec == Init /\ [][Next]_vars

(***************************************************************************)
(* Helpers of the properties.                                              *)
(***************************************************************************)
Positions(str, lexeme) == {i \in 1..Len(str) : str[i] = lexeme}

RECURSIVE Flatten(_)
Flatten(seqs) == IF seqs = <<>> THEN <<>> ELSE Head(seqs) \o Flatten(Tail(seqs))

\* The first position of s whose element satisfies P, 0 when there is none.
FirstWhere(P(_), s) ==
    IF \E i \in 1..Len(s) : P(s[i])
    THEN CHOOSE i \in 1..Len(s) : P(s[i]) /\ \A j \in 1..(i - 1) : ~P(s[j])
    ELSE 0

NamesRank(arg, ranks) ==
    \E i \in 1..Len(arg) : arg[i] \in Qualifiers /\ QualRank(arg[i]) \in ranks

\* The call reported exactly one message, an Error with this wording.
OneError(wording) ==
    Len(diag) = 1 /\ diag[1].level = "Error" /\ diag[1].text[1] = wording

(***************************************************************************)
(* ParseTargetDensityParameter: properties                                 *)
(***************************************************************************)
DensityDone == pc = "done" /\ call.op = "ParseTargetDensityParameter"

DensityValue(arg) ==
    QualDensity(arg[CHOOSE i \in 1..Len(arg) : arg[i] \in Qualifiers /\ QualRank(arg[i]) = 4])

\* C6 as stated: an invalid string fails with "invalid density"; a valid string
\* naming any axis other than density (the SDK version included) fails with
\* "invalid preferred density"; a valid string naming only a density returns it.
C6_AsStated ==
    DensityDone =>
        /\ ~ConfigParse(call.arg).some => ~ret.some /\ OneError("invalid density")
        /\ ConfigParse(call.arg).some /\ NamesRank(call.arg, {1, 2, 3, 5})
              => ~ret.some /\ OneError("invalid preferred density")
        /\ ConfigParse(call.arg).some /\ NamesRank(call.arg, {4})
              /\ ~NamesRank(call.arg, {1, 2, 3, 5})
              => ret = Just(DensityValue(call.arg)) /\ diag = <<>>

\* C6 amended: an invalid string fails with "invalid density"; a valid string
\* that names an axis other than density and SDK version, or names no density,
\* fails with "invalid preferred density"; a valid string that names a density
\* and otherwise at most an SDK version returns the density, whatever the
\* version (added by the parser or written in the string).
C6_DensityResolver ==
    DensityDone =>
        /\ ~ConfigParse(call.arg).some => ~ret.some /\ OneError("invalid density")
        /\ ConfigParse(call.arg).some
              /\ (NamesRank(call.arg, {1, 2, 3}) \/ ~NamesRank(call.arg, {4}))
              => ~ret.some /\ OneError("invalid preferred density")
        /\ ConfigParse(call.arg).some /\ NamesRank(call.arg, {4})
              /\ ~NamesRank(call.arg, {1, 2, 3})
              => ret = Just(DensityValue(call.arg)) /\ diag = <<>>

C6_Witness ==
    /\ DensityDone
    /\ call.arg = <<"hdpi", "-", "v21">>
    /\ ConfigParse(call.arg).value.sdkVersion = 21
    /\ ret = Just(240)

(***************************************************************************)
(* ParseSplitParameter: properties                                         *)
(***************************************************************************)
SplitDone == pc = "done" /\ call.op = "ParseSplitParameter"

\* With exactly one separator: the path part and the tokens of the config part.
SplitPathPart(arg) ==
    SubSeq(arg, 1, (CHOOSE i \in Positions(arg, sSeparator) : TRUE) - 1)
SplitTokens(arg) ==
    Tokenize(SubSeq(arg, (CHOOSE i \in Positions(arg, sSeparator) : TRUE) + 1, Len(arg)), ",")

TokenFails(token) == ~ConfigParse(token).some

ParsedConfigs(tokens) == {ConfigParse(tokens[i]).value : i \in 1..Len(tokens)}

MalformedSplitReported ==
    /\ Len(diag) = 2
    /\ diag[1].level = "Error" /\ diag[1].text = <<"invalid split parameter", call.arg>>
    /\ diag[2].level = "Note"

\* C8: an argument without exactly one separator fails with an Error and a usage
\* Note; otherwise the call fails at the first token that is no configuration,
\* naming it, and else succeeds with the path part in out_path and every
\* token's descriptor in out_split (exactly those when out_split was empty).
C8_SplitParameter ==
    SplitDone =>
        IF Cardinality(Positions(call.arg, sSeparator)) # 1
        THEN ret = FALSE /\ MalformedSplitReported
        ELSE LET tokens == SplitTokens(call.arg)
                 k == FirstWhere(TokenFails, tokens)
             IN  IF k # 0
                 THEN /\ ret = FALSE
                      /\ diag = <<Msg("Error", <<"invalid config", tokens[k], call.arg>>)>>
                 ELSE /\ ret = TRUE
                      /\ diag = <<>>
                      /\ out_path = SplitPathPart(call.arg)
                      /\ ParsedConfigs(tokens) \subseteq out_split
                      /\ call.prior.configs = {} => out_split = ParsedConfigs(tokens)

C8_Witness ==
    /\ SplitDone
    /\ call.arg = <<"out.apk", ":", "en", ",", "fr">>
    /\ call.prior.configs = {}
    /\ ret = TRUE
    /\ out_path = <<"out.apk">>
    /\ out_split = {[DefaultConfig EXCEPT !.locale = "en"], [DefaultConfig EXCEPT !.locale = "fr"]}

\* C10: a call that fails on the number of parts leaves out_path and out_split
\* as they were; a call that fails at token k has stored the path part in
\* out_path and added the descriptors of the tokens before k to out_split; no
\* call removes a descriptor from out_split.
C10_SplitOutputs ==
    SplitDone =>
        /\ call.prior.configs \subseteq out_split
        /\ IF Cardinality(Positions(call.arg, sSeparator)) # 1
           THEN ret = FALSE /\ out_path = call.prior.path /\ out_split = call.prior.configs
           ELSE LET tokens == SplitTokens(call.arg)
                    k == FirstWhere(TokenFails, tokens)
                IN  k # 0 =>
                      /\ ret = FALSE
                      /\ out_path = SplitPathPart(call.arg)
                      /\ out_split = call.prior.configs
                                        \cup ParsedConfigs(SubSeq(tokens, 1, k - 1))

C10_Witness ==
    /\ SplitDone
    /\ call.arg = <<"out.apk", ":", "fr", ",", "zz">>
    /\ call.prior.path = <<"old.apk">>
    /\ ret = FALSE
    /\ out_path = <<"out.apk">>
    /\ [DefaultConfig EXCEPT !.locale = "fr"] \in out_split
    /\ [DefaultConfig EXCEPT !.orientation = "land"] \in out_split

(***************************************************************************)
(* ParseConfigFilterParameters: properties                                 *)
(***************************************************************************)
FilterDone == pc = "done" /\ call.op = "ParseConfigFilterParameters"

FilterTokens(args) == Flatten(Map(LAMBDA arg : Tokenize(arg, ","), args))

\* What a token stands for: its locale if it is one, else its configuration.
TokenDescriptor(token) ==
    IF LocaleParse(token).some THEN LocaleParse(token).value ELSE ConfigParse(token).value

TokenRejected(token) == ~LocaleParse(token).some /\ ~ConfigParse(token).some

HasDensity(token) == TokenDescriptor(token).density # 0
NoDensity(token) == TokenDescriptor(token).density = 0
DensityWarning(token) == Msg("Warn", <<"ignoring density", TokenDescriptor(token)>>)

\* C7: when a token is neither a locale nor a configuration the call returns
\* nothing and its one Error names the first such token, no later token being
\* looked at; otherwise it returns the filter holding, in token order, the
\* descriptors of the tokens without density.  Every token with a density that
\* was reached got one warning and was not added.
C7_ConfigFilter ==
    FilterDone =>
        LET tokens == FilterTokens(call.args)
            k == FirstWhere(TokenRejected, tokens)
        IN  IF k # 0
            THEN /\ ~ret.some
                 /\ diag = Map(DensityWarning, SelectSeq(SubSeq(tokens, 1, k - 1), HasDensity))
                             \o <<Msg("Error", <<"invalid config", tokens[k]>>)>>
            ELSE /\ ret = Just(Map(TokenDescriptor, SelectSeq(tokens, NoDensity)))
                 /\ diag = Map(DensityWarning, SelectSeq(tokens, HasDensity))

C7_Witness ==
    /\ FilterDone
    /\ call.args = <<<<"hdpi">>, <<"car", ",", "land">>>>
    /\ ret = Just(<<[DefaultConfig EXCEPT !.locale = "car"],
                    [DefaultConfig EXCEPT !.orientation = "land"]>>)
    /\ Len(diag) = 1 /\ diag[1].level = "Warn"

(***************************************************************************)
(* AdjustSplitConstraintsForMinSdk: properties                             *)
(***************************************************************************)
AdjustRan == pc \in {"done", "again"} /\ call.op = "AdjustSplitConstraintsForMinSdk"

Stripped(config) == [config EXCEPT !.sdkVersion = 0]

\* C1: the result is as long as the argument, and its i-th set is the image of
\* the argument's i-th set under: a version at or below min_sdk is cleared,
\* a version above it is kept.  The argument is as it was before the call.
C1_AdjustIsImage ==
    AdjustRan =>
        /\ pc = "done" => call.split_constraints = call.original
        /\ Len(ret) = Len(call.split_constraints)
        /\ \A i \in 1..Len(ret) :
              ret[i] = {IF c.sdkVersion <= call.min_sdk THEN Stripped(c) ELSE c :
                            c \in call.split_constraints[i]}

C1_Witness ==
    /\ pc = "done"
    /\ call.op = "AdjustSplitConstraintsForMinSdk"
    /\ call.min_sdk = 21
    /\ call.split_constraints =
          <<{[DefaultConfig EXCEPT !.locale = "en", !.sdkVersion = 18],
             [DefaultConfig EXCEPT !.locale = "en", !.sdkVersion = 23]}>>
    /\ ret = <<{[DefaultConfig EXCEPT !.locale = "en"],
                [DefaultConfig EXCEPT !.locale = "en", !.sdkVersion = 23]}>>

\* C2: adjusting an adjusted sequence with the same minimum gives it back.
C2_AdjustIdempotent ==
    pc = "again" /\ call.op = "AdjustSplitConstraintsForMinSdk"
        => ret = call.split_constraints

\* Two descriptors of one set collapsed in the first adjustment.
C2_Witness ==
    /\ pc = "again"
    /\ call.op = "AdjustSplitConstraintsForMinSdk"
    /\ call.min_sdk = 21
    /\ Len(call.original) = 2
    /\ Cardinality(call.original[1]) = 3
    /\ Cardinality(call.split_constraints[1]) = 2
    /\ ret = call.split_constraints

(***************************************************************************)
(* GenerateSplitManifest: properties                                       *)
(***************************************************************************)
ManifestDone == pc = "done" /\ call.op = "GenerateSplitManifest"

\* The values of the attributes of el with this name.
AttributeValues(el, name) ==
    {el.attributes[i].value : i \in {j \in 1..Len(el.attributes) : el.attributes[j].name = name}}

AttributeCount(el, name) ==
    Cardinality({j \in 1..Len(el.attributes) : el.attributes[j].name = name})

\* The strings of the set's descriptors, smallest descriptor first, each but
\* the last followed by "_".
RECURSIVE SortedJoined(_)
SortedJoined(configs) ==
    IF configs = {} THEN <<>>
    ELSE LET least == CHOOSE c \in configs : \A d \in configs : ~ConfigLess(d, c)
         IN  ConfigToString(least)
             \o (IF configs = {least} THEN <<>> ELSE <<"_">>)
             \o SortedJoined(configs \ {least})

\* C9: the manifest element's split attribute is "config." and the sorted join,
\* with "<name>." in front when a split name is given; configForSplit is there
\* exactly when a name is given and equals it; versionCode and revisionCode are
\* there exactly when AppInfo has them; the one child is an application element
\* whose hasCode is a compiled boolean false.
C9_SplitManifest ==
    ManifestDone =>
        LET manifest_el == ret.root.value.children[1]
            app_info == call.app_info
        IN  /\ manifest_el.name = "manifest"
            /\ AttributeValues(manifest_el, "split") =
                  {(IF app_info.split_name.some THEN app_info.split_name.value \o <<".">>
                    ELSE <<>>)
                   \o <<"config.">> \o SortedJoined(call.constraints)}
            /\ AttributeCount(manifest_el, "split") = 1
            /\ AttributeCount(manifest_el, "configForSplit") =
                  (IF app_info.split_name.some THEN 1 ELSE 0)
            /\ app_info.split_name.some =>
                  AttributeValues(manifest_el, "configForSplit") = {app_info.split_name.value}
            /\ AttributeCount(manifest_el, "versionCode") =
                  (IF app_info.version_code.some THEN 1 ELSE 0)
            /\ AttributeCount(manifest_el, "revisionCode") =
                  (IF app_info.revision_code.some THEN 1 ELSE 0)
            /\ Len(manifest_el.children) = 1
            /\ manifest_el.children[1].name = "application"
            /\ \E i \in 1..Len(manifest_el.children[1].attributes) :
                  LET attr == manifest_el.children[1].attributes[i]
                  IN  /\ attr.name = "hasCode"
                      /\ attr.compiled_value = Just(BinaryPrimitive(TYPE_INT_BOOLEAN, 0))

C9_Witness ==
    /\ ManifestDone
    /\ call.app_info.split_name = Just(<<"feature">>)
    /\ call.constraints = {[DefaultConfig EXCEPT !.locale = "en"],
                           [DefaultConfig EXCEPT !.density = 240, !.sdkVersion = 4]}
    /\ AttributeValues(ret.root.value.children[1], "split") =
          {<<"feature", ".", "config.", "hdpi", "-", "v4", "_", "en">>}
    /\ AttributeValues(ret.root.value.children[1], "configForSplit") = {<<"feature">>}

(***************************************************************************)
(* The extractors: properties                                              *)
(***************************************************************************)
ExtractDone == pc = "done" /\ call.op \in Extractors

HasCompiled == call.attr.compiled_value.some
Compiled == call.attr.compiled_value.value

CompiledIsString == HasCompiled /\ Compiled.kind = "String"
CompiledIsInt ==
    HasCompiled /\ Compiled.kind = "BinaryPrimitive"
        /\ Compiled.dataType \in TYPE_FIRST_INT..TYPE_LAST_INT

\* The compiled value is of a kind the extractor takes.
CompiledOfExpectedKind ==
    CASE call.op = "ExtractCompiledString" -> CompiledIsString
      [] call.op = "ExtractCompiledInt" -> CompiledIsInt
      [] OTHER -> CompiledIsInt \/ CompiledIsString

\* The text alone would be accepted.
TextAccepted ==
    CASE call.op = "ExtractCompiledString" -> call.attr.value # <<>>
      [] call.op = "ExtractCompiledInt" -> ParseInt(call.attr.value).some
      [] OTHER -> ParseSdkVersion(call.attr.value).some

\* What is common to C3 as stated and as amended: without a compiled value the
\* text decides; a compiled value of another kind, and an empty compiled string
\* given to the string extractor, fail; a compiled integer, and a non-empty
\* compiled string given to the string extractor, are the result; every
\* failure leaves a reason of its own in out_error.
ExtractorsCommon ==
    /\ ~HasCompiled => (ret.result.some <=> TextAccepted)
    /\ ~HasCompiled /\ TextAccepted =>
          ret.result.value =
              (CASE call.op = "ExtractCompiledString" -> call.attr.value
                 [] call.op = "ExtractCompiledInt" -> ParseInt(call.attr.value).value
                 [] OTHER -> ParseSdkVersion(call.attr.value).value)
    /\ HasCompiled /\ ~CompiledOfExpectedKind => ~ret.result.some
    /\ call.op = "ExtractCompiledString" /\ CompiledIsString =>
          IF Compiled.value = <<>> THEN ~ret.result.some
          ELSE ret.result = Just(Compiled.value)
    /\ call.op # "ExtractCompiledString" /\ CompiledIsInt => ret.result = Just(Compiled.data)
    /\ ~ret.result.some => ret.out_error # <<>> /\ ret.out_error # <<"an earlier error">>

\* C3 as stated: on top of the above, whenever the compiled value is of an
\* expected kind (and is no empty string given to the string extractor) the
\* extractor succeeds.
C3_AsStated ==
    ExtractDone =>
        /\ ExtractorsCommon
        /\ HasCompiled /\ CompiledOfExpectedKind
              /\ ~(call.op = "ExtractCompiledString" /\ Compiled.value = <<>>)
              => ret.result.some

\* C3 amended: a compiled string given to the SDK-version extractor succeeds
\* exactly when the string itself is an SDK version, whatever the text.
C3_Extractors ==
    ExtractDone =>
        /\ ExtractorsCommon
        /\ call.op = "ExtractSdkVersion" /\ CompiledIsString =>
              ret.result = ParseSdkVersion(Compiled.value)

\* The compiled value decides against an acceptable text, and for an
\* unacceptable one.
C3_Witness ==
    /\ ExtractDone
    /\ call.op = "ExtractSdkVersion"
    /\ call.attr.value = <<"7">>
    /\ CompiledIsString
    /\ Compiled.value = <<"abc">>
    /\ ~ret.result.some
    /\ ret.out_error = <<"compiled string value is not a valid SDK version">>

(***************************************************************************)
(* ExtractAppInfoFromBinaryManifest: properties                            *)
(***************************************************************************)
AppInfoDone == pc = "done" /\ call.op = "ExtractAppInfoFromBinaryManifest"

\* An optional attribute is present and its extractor refuses it.
Refused(attr, extracted(_, _)) == attr.some /\ ~extracted(attr.value, <<>>).result.some

\* Whether check k (1..8) of the extraction fails on the document.
CheckFails(k, xml_res) ==
    LET root == FindRootElement(xml_res.root)
    IN  IF ~root.some THEN k = 1
        ELSE LET el == root.value
                 uses_sdk == FindChild(el, "", "uses-sdk")
             IN  CASE k = 1 -> FALSE
                   [] k = 2 -> el.name # "manifest" \/ el.namespace_uri # ""
                   [] k = 3 -> ~FindAttribute(el, "", "package").some
                   [] k = 4 -> Refused(FindAttribute(el, "", "package"), ExtractCompiledString)
                   [] k = 5 -> Refused(FindAttribute(el, kSchemaAndroid, "versionCode"),
                                       ExtractCompiledInt)
                   [] k = 6 -> Refused(FindAttribute(el, kSchemaAndroid, "revisionCode"),
                                       ExtractCompiledInt)
                   [] k = 7 -> Refused(FindAttribute(el, "", "split"), ExtractCompiledString)
                   [] OTHER -> /\ uses_sdk.some
                               /\ Refused(FindAttribute(uses_sdk.value, kSchemaAndroid,
                                                        "minSdkVersion"),
                                          ExtractSdkVersion)

FailingChecks(xml_res) == {k \in 1..8 : CheckFails(k, xml_res)}

CheckWording(k) ==
    CASE k = 2 -> "root tag must be <manifest>"
      [] k = 3 -> "<manifest> must have a 'package' attribute"
      [] k = 4 -> "invalid package name: "
      [] k = 5 -> "invalid android:versionCode: "
      [] k = 6 -> "invalid android:revisionCode: "
      [] k = 7 -> "invalid split name: "
      [] OTHER -> "invalid android:minSdkVersion: "

\* The line check k's message is anchored at.
CheckLine(k, xml_res) ==
    LET el == FindRootElement(xml_res.root).value
    IN  CASE k \in {2, 3} -> Nothing
          [] k \in 4..7 -> Just(el.line_number)
          [] OTHER -> Just(FindChild(el, "", "uses-sdk").value.line_number)

\* C4: the call fails exactly when one of the eight checks fails, and then
\* returns nothing and reports the message of the earliest failing check and no
\* other: none when there is no root element, else one Error with that check's
\* wording, anchored at the document for checks 2 and 3, at the manifest
\* element's line for checks 4 to 7 and at the uses-sdk element's line for
\* check 8.  A document on which no check fails yields an AppInfo and no message.
C4_AppInfoChecks ==
    AppInfoDone =>
        LET failing == FailingChecks(call.xml_res)
        IN  IF failing = {} THEN ret.some /\ diag = <<>>
            ELSE LET k == CHOOSE c \in failing : \A d \in failing : c <= d
                 IN  /\ ~ret.some
                     /\ IF k = 1 THEN diag = <<>>
                        ELSE /\ Len(diag) = 1
                             /\ diag[1].level = "Error"
                             /\ diag[1].text[1] = CheckWording(k)
                             /\ diag[1].source = call.xml_res.file.source
                             /\ diag[1].line = CheckLine(k, call.xml_res)

\* Several checks fail at once and only the earliest is reported.
C4_Witness ==
    /\ AppInfoDone
    /\ FailingChecks(call.xml_res) = {5, 6, 7, 8}
    /\ ~ret.some
    /\ Len(diag) = 1
    /\ diag[1].text[1] = "invalid android:versionCode: "
    /\ diag[1].line = Just(2)

(***************************************************************************)
(* The fallible operations: properties                                     *)
(***************************************************************************)
Fallible ==
    {"ParseTargetDensityParameter", "ParseSplitParameter", "ParseConfigFilterParameters",
     "ExtractAppInfoFromBinaryManifest"}

ReturnedFailure == IF call.op = "ParseSplitParameter" THEN ret = FALSE ELSE ~ret.some

\* C5: a fallible operation that returns failure has reported at least one
\* Error, and one that returns success has reported none.
C5_FailureIsReported ==
    pc = "done" /\ call.op \in Fallible =>
        IF ReturnedFailure THEN Errors(diag) # <<>> ELSE Errors(diag) = <<>>

====
